---- MODULE Spec2Model ----
(***************************************************************************)
(* Model of the Application Insights span exporter (package apex):        *)
(*   - the exporter lifecycle guard: NewExporter, NewExporterFromConfig,   *)
(*     ExportSpans and Shutdown over the closed flag and the RWMutex;      *)
(*   - the span classifier and mapper: process and its four process*      *)
(*     functions, which hand one telemetry record to client.Track.         *)
(***************************************************************************)
EXTENDS Integers, Sequences, FiniteSets, TLC

\* Number of ExportSpans/Shutdown invocations in one behaviour.
MaxCalls == 2
\* Longest span-attribute list of a span handed to process directly.
MaxAttrs == 2

Calls == 1 .. MaxCalls

(***************************************************************************)
(* Library values the code compares against.                               *)
(***************************************************************************)
\* trace.SpanKind (an int type): the six enumerated kinds.
SpanKindUnspecified == 0
SpanKindInternal == 1
SpanKindServer == 2
SpanKindClient == 3
SpanKindProducer == 4
SpanKindConsumer == 5
\* A SpanKind value outside the enumeration (SpanKind is an int; a
\* ReadOnlySpan implementation may return any value).
SpanKindOther == SpanKindConsumer + 1
\* codes.Code
CodesUnset == 0
CodesError == 1
CodesOk == 2

ServiceNameKey == "service.name"

SpanKinds == {SpanKindUnspecified, SpanKindInternal, SpanKindServer,
              SpanKindClient, SpanKindProducer, SpanKindConsumer,
              SpanKindOther}
RecognisedKinds == SpanKinds \ {SpanKindOther}
StatusCodes == {CodesUnset, CodesError, CodesOk}

(***************************************************************************)
(* Identifiers: byte arrays, printed by String() as lowercase hex.         *)
(***************************************************************************)
HexDigits == <<"0", "1", "2", "3", "4", "5", "6", "7",
               "8", "9", "a", "b", "c", "d", "e", "f">>

HexByte(b) == HexDigits[(b \div 16) + 1] \o HexDigits[(b % 16) + 1]

RECURSIVE HexString(_)
HexString(bytes) ==
    IF bytes = << >> THEN ""
    ELSE HexByte(Head(bytes)) \o HexString(Tail(bytes))

\* The identifiers of the test fixtures.
TraceIdFixture == <<0, 17, 34, 51, 68, 85, 102, 119,
                    136, 153, 170, 187, 204, 221, 238, 255>>
ParentIdFixture == <<1, 35, 69, 103, 137, 171, 205, 239>>
ParentIdZero == <<0, 0, 0, 0, 0, 0, 0, 0>>
SpanIdFixture == <<0, 0, 0, 0, 0, 0, 0, 1>>

(***************************************************************************)
(* Attributes and the merged property map (map[string]string).             *)
(***************************************************************************)
KV(k, t, s) == [Key |-> k, Value |-> [Type |-> t, Str |-> s]]

\* attribute.Value.AsString: the string of a STRING value, "" otherwise.
AsString(v) == IF v.Type = "STRING" THEN v.Str ELSE ""

EmptyMap == [x \in {} |-> ""]
Put(m, k, v) == [x \in (DOMAIN m) \cup {k} |-> IF x = k THEN v ELSE m[x]]
Delete(m, k) == [x \in (DOMAIN m) \ {k} |-> m[x]]

\* for _, e := range attrs { props[string(e.Key)] = e.Value.AsString() }
RECURSIVE PutAll(_, _)
PutAll(m, attrs) ==
    IF attrs = << >> THEN m
    ELSE PutAll(Put(m, Head(attrs).Key, AsString(Head(attrs).Value)),
                Tail(attrs))

\* Faulty variant of MergedProps: the span attributes written first, so that
\* a resource attribute wins a collision.
MergedPropsResourceWins(sp) == PutAll(PutAll(EmptyMap, sp.attr), sp.res)

\* props built by process: resource attributes, then span attributes.
MergedProps(sp) == PutAll(PutAll(EmptyMap, sp.res), sp.attr)

\* Faulty variant of Take: the key is read but not deleted.
TakeNoDelete(properties, key, default) ==
    IF key \in DOMAIN properties
    THEN [val |-> properties[key], rest |-> properties]
    ELSE [val |-> default, rest |-> properties]

\* if val, ok := properties[key]; ok { delete(properties, key); field = val }
Take(properties, key, default) ==
    IF key \in DOMAIN properties
    THEN [val |-> properties[key], rest |-> Delete(properties, key)]
    ELSE [val |-> default, rest |-> properties]

\* Faulty variant of OperationParentId: the all-zero parent id is passed on.
OperationParentIdNoFallback(sp) == HexString(sp.parentId)

\* pid := sp.Parent().SpanID().String(), replaced by the trace id when it
\* is the all-zero id.
OperationParentId(sp) ==
    LET pid == HexString(sp.parentId)
    IN IF pid = "0000000000000000" THEN HexString(sp.traceId) ELSE pid

(***************************************************************************)
(* The four mapping functions.  Each returns the telemetry it passes to    *)
(* client.Track, tagged with the function that built it.                   *)
(***************************************************************************)
\* Faulty variant of processInternal: service.name is read but not deleted.
processInternalKeepKey(sp, properties) ==
    LET role == Take(properties, ServiceNameKey, "unknown-service")
    IN [Fn |-> "processInternal",
        Type |-> "EventTelemetry",
        Name |-> sp.name,
        Timestamp |-> sp.startTime,
        Role |-> role.val,
        OperationId |-> HexString(sp.traceId),
        OperationParentId |-> OperationParentId(sp),
        OperationName |-> sp.name,
        Properties |-> properties]

processInternal(sp, properties) ==
    LET role == Take(properties, ServiceNameKey, "unknown-service")
    IN [Fn |-> "processInternal",
        Type |-> "EventTelemetry",
        Name |-> sp.name,
        Timestamp |-> sp.startTime,
        Role |-> role.val,
        OperationId |-> HexString(sp.traceId),
        OperationParentId |-> OperationParentId(sp),
        OperationName |-> sp.name,
        Properties |-> role.rest]

\* Faulty variant of processRequest: the url is read from "key", as
\* processEvent does.
processRequestFromKey(sp, success, properties) ==
    LET role == Take(properties, ServiceNameKey, "unknown-service")
        url == Take(role.rest, "key", "")
        code == Take(url.rest, "responseCode", "0")
    IN [Fn |-> "processRequest",
        Type |-> "RequestTelemetry",
        Name |-> sp.name,
        Url |-> url.val,
        Id |-> HexString(sp.spanId),
        Duration |-> sp.endTime - sp.startTime,
        ResponseCode |-> code.val,
        Success |-> success,
        Timestamp |-> sp.startTime,
        Role |-> role.val,
        OperationId |-> HexString(sp.traceId),
        OperationParentId |-> OperationParentId(sp),
        OperationName |-> sp.name,
        Properties |-> code.rest]

processRequest(sp, success, properties) ==
    LET role == Take(properties, ServiceNameKey, "unknown-service")
        url == Take(role.rest, "url", "")
        code == Take(url.rest, "responseCode", "0")
    IN [Fn |-> "processRequest",
        Type |-> "RequestTelemetry",
        Name |-> sp.name,
        Url |-> url.val,
        Id |-> HexString(sp.spanId),
        Duration |-> sp.endTime - sp.startTime,
        ResponseCode |-> code.val,
        Success |-> success,
        Timestamp |-> sp.startTime,
        Role |-> role.val,
        OperationId |-> HexString(sp.traceId),
        OperationParentId |-> OperationParentId(sp),
        OperationName |-> sp.name,
        Properties |-> code.rest]

\* Faulty variant of processEvent: the url is read from "url", as
\* processRequest does.
processEventFromUrl(sp, success, properties) ==
    LET role == Take(properties, ServiceNameKey, "unknown-service")
        url == Take(role.rest, "url", "")
        code == Take(url.rest, "responseCode", "0")
    IN [Fn |-> "processEvent",
        Type |-> "RequestTelemetry",
        Name |-> sp.name,
        Url |-> url.val,
        Id |-> HexString(sp.spanId),
        Duration |-> sp.endTime - sp.startTime,
        ResponseCode |-> code.val,
        Success |-> success,
        Timestamp |-> sp.startTime,
        Role |-> role.val,
        OperationId |-> HexString(sp.traceId),
        OperationParentId |-> OperationParentId(sp),
        OperationName |-> sp.name,
        Properties |-> code.rest]

processEvent(sp, success, properties) ==
    LET role == Take(properties, ServiceNameKey, "unknown-service")
        url == Take(role.rest, "key", "")
        code == Take(url.rest, "responseCode", "0")
    IN [Fn |-> "processEvent",
        Type |-> "RequestTelemetry",
        Name |-> sp.name,
        Url |-> url.val,
        Id |-> HexString(sp.spanId),
        Duration |-> sp.endTime - sp.startTime,
        ResponseCode |-> code.val,
        Success |-> success,
        Timestamp |-> sp.startTime,
        Role |-> role.val,
        OperationId |-> HexString(sp.traceId),
        OperationParentId |-> OperationParentId(sp),
        OperationName |-> sp.name,
        Properties |-> code.rest]

\* Faulty variant of processDependency: the role is read from service.name,
\* as the other three functions do.
processDependencyRoleFromService(sp, success, properties) ==
    LET role == Take(properties, ServiceNameKey, "unknown-service")
        type == Take(role.rest, "type", "")
        target == Take(type.rest, ServiceNameKey, "unknown-target")
    IN [Fn |-> "processDependency",
        Type |-> "RemoteDependencyTelemetry",
        Name |-> sp.name,
        Id |-> HexString(sp.spanId),
        DependencyType |-> type.val,
        Target |-> target.val,
        Duration |-> sp.endTime - sp.startTime,
        Success |-> success,
        Timestamp |-> sp.startTime,
        Role |-> role.val,
        OperationId |-> HexString(sp.traceId),
        OperationParentId |-> OperationParentId(sp),
        OperationName |-> sp.name,
        Properties |-> target.rest]

processDependency(sp, success, properties) ==
    LET role == Take(properties, "source", "unknown-service")
        type == Take(role.rest, "type", "")
        target == Take(type.rest, ServiceNameKey, "unknown-target")
    IN [Fn |-> "processDependency",
        Type |-> "RemoteDependencyTelemetry",
        Name |-> sp.name,
        Id |-> HexString(sp.spanId),
        DependencyType |-> type.val,
        Target |-> target.val,
        Duration |-> sp.endTime - sp.startTime,
        Success |-> success,
        Timestamp |-> sp.startTime,
        Role |-> role.val,
        OperationId |-> HexString(sp.traceId),
        OperationParentId |-> OperationParentId(sp),
        OperationName |-> sp.name,
        Properties |-> target.rest]

\* success := true; if sp.Status().Code != codes.Ok { success = false }
Success(sp) == sp.status = CodesOk

\* Faulty variant of Dispatch: the producer case routed as the consumer case.
DispatchProducerAsEvent(kind) ==
    CASE kind = SpanKindUnspecified -> "processInternal"
      [] kind = SpanKindInternal -> "processInternal"
      [] kind = SpanKindServer -> "processRequest"
      [] kind = SpanKindClient -> "processDependency"
      [] kind = SpanKindProducer -> "processEvent"
      [] kind = SpanKindConsumer -> "processEvent"
      [] OTHER -> "none"

\* Faulty variant of Dispatch: a default case that routes every other kind
\* to processInternal.
DispatchDefaultInternal(kind) ==
    CASE kind = SpanKindUnspecified -> "processInternal"
      [] kind = SpanKindInternal -> "processInternal"
      [] kind = SpanKindServer -> "processRequest"
      [] kind = SpanKindClient -> "processDependency"
      [] kind = SpanKindProducer -> "processDependency"
      [] kind = SpanKindConsumer -> "processEvent"
      [] OTHER -> "processInternal"

\* The switch of process: the function a span kind is routed to ("none"
\* when no case matches).
Dispatch(kind) ==
    CASE kind = SpanKindUnspecified -> "processInternal"
      [] kind = SpanKindInternal -> "processInternal"
      [] kind = SpanKindServer -> "processRequest"
      [] kind = SpanKindClient -> "processDependency"
      [] kind = SpanKindProducer -> "processDependency"
      [] kind = SpanKindConsumer -> "processEvent"
      [] OTHER -> "none"

\* Faulty variant of process: a producer span handled by two cases.
processTwice(sp) ==
    LET success == sp.status = CodesOk
        props == PutAll(PutAll(EmptyMap, sp.res), sp.attr)
    IN CASE sp.kind \in {SpanKindUnspecified, SpanKindInternal} ->
                <<processInternal(sp, props)>>
         [] sp.kind = SpanKindServer -> <<processRequest(sp, success, props)>>
         [] sp.kind = SpanKindClient ->
                <<processDependency(sp, success, props)>>
         [] sp.kind = SpanKindProducer ->
                <<processDependency(sp, success, props),
                  processEvent(sp, success, props)>>
         [] sp.kind = SpanKindConsumer -> <<processEvent(sp, success, props)>>
         [] OTHER -> << >>

\* process(sp): the sequence of telemetry it passes to client.Track.
process(sp) ==
    LET success == Success(sp)
        props == MergedProps(sp)
        fn == Dispatch(sp.kind)
    IN CASE fn = "processInternal" -> <<processInternal(sp, props)>>
         [] fn = "processRequest" -> <<processRequest(sp, success, props)>>
         [] fn = "processDependency" ->
                <<processDependency(sp, success, props)>>
         [] fn = "processEvent" -> <<processEvent(sp, success, props)>>
         [] OTHER -> << >>

(***************************************************************************)
(* Inputs.                                                                 *)
(***************************************************************************)
MkSpan(kind, status, parentId, res, attr) ==
    [name |-> "span", kind |-> kind, status |-> status,
     startTime |-> 1000, endTime |-> 1060,
     traceId |-> TraceIdFixture, parentId |-> parentId,
     spanId |-> SpanIdFixture, res |-> res, attr |-> attr]

\* Spans handed to ExportSpans: the server span of the request test, an
\* internal span without parent, and a span of no enumerated kind.
SpanServer ==
    MkSpan(SpanKindServer, CodesOk, ParentIdFixture,
           <<KV(ServiceNameKey, "STRING", "test")>>,
           <<KV("url", "STRING", "users/1234"),
             KV("responseCode", "STRING", "200"),
             KV("valid", "STRING", "true")>>)
SpanInternal ==
    MkSpan(SpanKindInternal, CodesOk, ParentIdZero, << >>, << >>)
SpanOther ==
    MkSpan(SpanKindOther, CodesOk, ParentIdFixture, << >>, << >>)

\* Batches handed to ExportSpans.
BatchSet == {<< >>, <<SpanServer, SpanInternal>>, <<SpanOther, SpanServer>>}

\* Attribute lists of the spans handed to process directly.
ResAttrSet ==
    {<< >>,
     <<KV(ServiceNameKey, "STRING", "test")>>,
     <<KV("url", "STRING", "res-url"), KV("valid", "STRING", "res")>>}
AttrPairs ==
    {KV(ServiceNameKey, "STRING", "svc"), KV("url", "STRING", "users/1234"),
     KV("responseCode", "STRING", "200"), KV("key", "STRING", "queue"),
     KV("source", "STRING", "caller"), KV("type", "STRING", "http"),
     KV("valid", "STRING", "true"), KV("responseCode", "INT64", "")}
AttrSeqs == UNION {[1 .. n -> AttrPairs] : n \in 0 .. MaxAttrs}

ProcSpans ==
    {MkSpan(k, st, pid, res, attr) :
        k \in SpanKinds, st \in StatusCodes,
        pid \in {ParentIdFixture, ParentIdZero},
        res \in ResAttrSet, attr \in AttrSeqs}

(***************************************************************************)
(* State.                                                                  *)
(***************************************************************************)
VARIABLES
    made,      \* an exporter instance has been constructed
    ctor,      \* what the last constructor call got and returned
    closed,    \* exp.closed
    mtxW,      \* exp.mtx: the Shutdown call that holds or awaits the write
               \* lock (0: none); when set, new readers block
    mtxR,      \* exp.mtx: the ExportSpans calls holding the read lock
    op,        \* per call: "none", "export", "shutdown", "process"
    pc,        \* per call: its position
    batch,     \* per ExportSpans call: its spans argument
    i,         \* per ExportSpans call: spans of the batch looped over
    ret,       \* per call: its return value ("none" until it returns)
    ctxDone,   \* per Shutdown call: ctx.Done() is closed
    closeCh,   \* per Shutdown call: the channel Close returned
               \* ("none": Close not called, "open", "ready")
    tels,      \* the client: every telemetry passed to Track, in order
    closeLog,  \* the client: the Shutdown calls that invoked Close, in order
    first,     \* history: per Shutdown call, the signal that fired first
    seen       \* history: per call, what had happened when it was invoked

vars == <<made, ctor, closed, mtxW, mtxR, op, pc, batch, i, ret, ctxDone,
          closeCh, tels, closeLog, first, seen>>

NoSeen == [begun |-> FALSE, locked |-> FALSE, shutOk |-> FALSE]

InitCalls ==
    /\ op = [c \in Calls |-> "none"]
    /\ pc = [c \in Calls |-> "idle"]
    /\ batch = [c \in Calls |-> << >>]
    /\ i = [c \in Calls |-> 0]
    /\ ret = [c \in Calls |-> "none"]
    /\ ctxDone = [c \in Calls |-> FALSE]
    /\ closeCh = [c \in Calls |-> "none"]
    /\ first = [c \in Calls |-> "none"]
    /\ seen = [c \in Calls |-> NoSeen]
    /\ tels = << >>
    /\ closeLog = << >>

\* No exporter yet: no constructor has been called.
InitNew ==
    /\ made = FALSE
    /\ ctor = [fn |-> "none", cfgNil |-> FALSE, exp |-> "nil", err |-> "nil"]
    /\ closed = FALSE
    /\ mtxW = 0
    /\ mtxR = {}
    /\ InitCalls

\* The exporter as NewExporter returns it.
Init ==
    /\ made = TRUE
    /\ ctor = [fn |-> "NewExporter", cfgNil |-> FALSE,
               exp |-> "exporter", err |-> "nil"]
    /\ closed = FALSE
    /\ mtxW = 0
    /\ mtxR = {}
    /\ InitCalls

(***************************************************************************)
(* Constructors.                                                           *)
(***************************************************************************)
\* The struct literal both constructors return.
NewInstance ==
    /\ made' = TRUE
    /\ closed' = FALSE
    /\ mtxW' = 0
    /\ mtxR' = {}

NewExporter(instrumentationKey, logger) ==
    /\ ~made
    /\ NewInstance
    /\ ctor' = [fn |-> "NewExporter", cfgNil |-> FALSE,
                exp |-> "exporter", err |-> "nil"]
    /\ UNCHANGED <<op, pc, batch, i, ret, ctxDone, closeCh, tels,
                   closeLog, first, seen>>

\* Faulty variant of NewExporterFromConfig: no nil check of cfg.
NewExporterFromConfigNoCheck(cfg, logger) ==
    /\ ~made
    /\ made' = TRUE
    /\ closed' = FALSE
    /\ mtxW' = 0
    /\ mtxR' = {}
    /\ ctor' = [fn |-> "NewExporterFromConfig", cfgNil |-> cfg = "nil",
                exp |-> "exporter", err |-> "nil"]
    /\ UNCHANGED <<op, pc, batch, i, ret, ctxDone, closeCh, tels, closeLog,
                   first, seen>>

NewExporterFromConfig(cfg, logger) ==
    /\ ~made
    /\ IF cfg = "nil"
       THEN /\ ctor' = [fn |-> "NewExporterFromConfig", cfgNil |-> TRUE,
                        exp |-> "nil", err |-> "configuration is nil"]
            /\ UNCHANGED <<made, closed, mtxW, mtxR>>
       ELSE /\ NewInstance
            /\ ctor' = [fn |-> "NewExporterFromConfig", cfgNil |-> FALSE,
                        exp |-> "exporter", err |-> "nil"]
    /\ UNCHANGED <<op, pc, batch, i, ret, ctxDone, closeCh, tels,
                   closeLog, first, seen>>

(***************************************************************************)
(* Calls.  Call identifiers are handed out in invocation order.            *)
(***************************************************************************)
NextCall(c) == pc[c] = "idle" /\ \A d \in Calls : d < c => pc[d] # "idle"

ShutdownCalls == {d \in Calls : op[d] = "shutdown"}

\* What a call being invoked now can look back on.
SeenNow ==
    [begun |-> ShutdownCalls # {},
     locked |-> \E d \in ShutdownCalls :
                    pc[d] \in {"select", "blocked", "done"},
     shutOk |-> \E d \in ShutdownCalls : ret[d] = "nil"]

\* The records of telemetry, tagged with the call and the batch index.
Tagged(c, ix, recs) ==
    [k \in 1 .. Len(recs) |-> [by |-> c, ix |-> ix, tel |-> recs[k]]]

(***************************************************************************)
(* ExportSpans.                                                            *)
(***************************************************************************)
ExportInvoke(c, spans) ==
    /\ made
    /\ NextCall(c)
    /\ op' = [op EXCEPT ![c] = "export"]
    /\ pc' = [pc EXCEPT ![c] = "RLock"]
    /\ batch' = [batch EXCEPT ![c] = spans]
    /\ seen' = [seen EXCEPT ![c] = SeenNow]
    /\ UNCHANGED <<made, ctor, closed, mtxW, mtxR, i, ret, ctxDone, closeCh,
                   tels, closeLog, first>>

\* Faulty variant of ExportRLock: the closed flag is not checked.
ExportRLockNoCheck(c) ==
    /\ pc[c] = "RLock"
    /\ mtxW = 0
    /\ pc' = [pc EXCEPT ![c] = "loop"]
    /\ mtxR' = mtxR \cup {c}
    /\ UNCHANGED <<made, ctor, closed, mtxW, op, batch, i, ret, ctxDone,
                   closeCh, tels, closeLog, first, seen>>

\* Faulty variant of ExportRLock: neither the lock nor the closed flag, as
\* in the exporter before it had them.
ExportRLockUnguarded(c) ==
    /\ pc[c] = "RLock"
    /\ pc' = [pc EXCEPT ![c] = "loop"]
    /\ mtxR' = mtxR \cup {c}
    /\ UNCHANGED <<made, ctor, closed, mtxW, op, batch, i, ret, ctxDone,
                   closeCh, tels, closeLog, first, seen>>

\* exp.mtx.RLock(), which blocks while a writer holds or awaits the lock,
\* and the check made under it:
\* if exp.closed { return errors.New("exporter closed") }, with the
\* deferred RUnlock.
ExportRLock(c) ==
    /\ pc[c] = "RLock"
    /\ mtxW = 0
    /\ IF closed
       THEN /\ ret' = [ret EXCEPT ![c] = "exporter closed"]
            /\ pc' = [pc EXCEPT ![c] = "done"]
            /\ UNCHANGED mtxR
       ELSE /\ pc' = [pc EXCEPT ![c] = "loop"]
            /\ mtxR' = mtxR \cup {c}
            /\ UNCHANGED ret
    /\ UNCHANGED <<made, ctor, closed, mtxW, op, batch, i, ctxDone, closeCh,
                   tels, closeLog, first, seen>>

\* Faulty variant of ExportProcess: the batch walked from its end.
ExportProcessReversed(c) ==
    /\ pc[c] = "loop"
    /\ i[c] < Len(batch[c])
    /\ tels' = tels \o Tagged(c, Len(batch[c]) - i[c],
                               process(batch[c][Len(batch[c]) - i[c]]))
    /\ i' = [i EXCEPT ![c] = i[c] + 1]
    /\ UNCHANGED <<made, ctor, closed, mtxW, mtxR, op, pc, batch, ret,
                   ctxDone, closeCh, closeLog, first, seen>>

\* One iteration of for i := range spans { exp.process(spans[i]) }.
ExportProcess(c) ==
    /\ pc[c] = "loop"
    /\ i[c] < Len(batch[c])
    /\ tels' = tels \o Tagged(c, i[c] + 1, process(batch[c][i[c] + 1]))
    /\ i' = [i EXCEPT ![c] = i[c] + 1]
    /\ UNCHANGED <<made, ctor, closed, mtxW, mtxR, op, pc, batch, ret,
                   ctxDone, closeCh, closeLog, first, seen>>

\* Faulty variant of ExportReturn: the return without the deferred RUnlock.
ExportReturnNoRUnlock(c) ==
    /\ pc[c] = "loop"
    /\ i[c] = Len(batch[c])
    /\ ret' = [ret EXCEPT ![c] = "nil"]
    /\ pc' = [pc EXCEPT ![c] = "done"]
    /\ UNCHANGED <<made, ctor, closed, mtxW, mtxR, op, batch, i, ctxDone,
                   closeCh, tels, closeLog, first, seen>>

\* return nil, with the deferred RUnlock.
ExportReturn(c) ==
    /\ pc[c] = "loop"
    /\ i[c] = Len(batch[c])
    /\ ret' = [ret EXCEPT ![c] = "nil"]
    /\ pc' = [pc EXCEPT ![c] = "done"]
    /\ mtxR' = mtxR \ {c}
    /\ UNCHANGED <<made, ctor, closed, mtxW, op, batch, i, ctxDone, closeCh,
                   tels, closeLog, first, seen>>

(***************************************************************************)
(* Shutdown.                                                               *)
(***************************************************************************)
ShutdownInvoke(c, canceled) ==
    /\ made
    /\ NextCall(c)
    /\ op' = [op EXCEPT ![c] = "shutdown"]
    /\ pc' = [pc EXCEPT ![c] = "Lock"]
    /\ ctxDone' = [ctxDone EXCEPT ![c] = canceled]
    /\ first' = [first EXCEPT ![c] = IF canceled THEN "ctx" ELSE "none"]
    /\ seen' = [seen EXCEPT ![c] = SeenNow]
    /\ UNCHANGED <<made, ctor, closed, mtxW, mtxR, batch, i, ret, closeCh,
                   tels, closeLog>>

\* Faulty variant of ShutdownLock: a writer is admitted beside another.
ShutdownLockNoExclusion(c) ==
    /\ pc[c] = "Lock"
    /\ mtxW' = c
    /\ pc' = [pc EXCEPT ![c] = "drain"]
    /\ UNCHANGED <<made, ctor, closed, mtxR, op, batch, i, ret, ctxDone,
                   closeCh, tels, closeLog, first, seen>>

\* exp.mtx.Lock(), first half: exclude other writers and announce the
\* pending writer, which makes new readers block.
ShutdownLock(c) ==
    /\ pc[c] = "Lock"
    /\ mtxW = 0
    /\ mtxW' = c
    /\ pc' = [pc EXCEPT ![c] = "drain"]
    /\ UNCHANGED <<made, ctor, closed, mtxR, op, batch, i, ret, ctxDone,
                   closeCh, tels, closeLog, first, seen>>

\* Faulty variant of ShutdownLocked: exp.closed = true is missing.
ShutdownLockedNoFlag(c) ==
    /\ pc[c] = "drain"
    /\ mtxR = {}
    /\ closeCh' = [closeCh EXCEPT ![c] = "open"]
    /\ closeLog' = Append(closeLog, c)
    /\ pc' = [pc EXCEPT ![c] = "select"]
    /\ UNCHANGED <<made, ctor, closed, mtxW, mtxR, op, batch, i, ret,
                   ctxDone, tels, first, seen>>

\* Faulty variant of ShutdownLocked: the lock is taken without waiting for
\* the active readers.
ShutdownLockedNoDrain(c) ==
    /\ pc[c] = "drain"
    /\ closed' = TRUE
    /\ closeCh' = [closeCh EXCEPT ![c] = "open"]
    /\ closeLog' = Append(closeLog, c)
    /\ pc' = [pc EXCEPT ![c] = "select"]
    /\ UNCHANGED <<made, ctor, mtxW, mtxR, op, batch, i, ret, ctxDone, tels,
                   first, seen>>

\* Faulty variant of ShutdownLocked: a Shutdown of a closed exporter
\* returns nil at once, without calling Close.
ShutdownLockedOnce(c) ==
    /\ pc[c] = "drain"
    /\ mtxR = {}
    /\ IF closed
       THEN /\ ret' = [ret EXCEPT ![c] = "nil"]
            /\ pc' = [pc EXCEPT ![c] = "done"]
            /\ mtxW' = 0
            /\ UNCHANGED <<closed, closeCh, closeLog>>
       ELSE /\ closed' = TRUE
            /\ closeCh' = [closeCh EXCEPT ![c] = "open"]
            /\ closeLog' = Append(closeLog, c)
            /\ pc' = [pc EXCEPT ![c] = "select"]
            /\ UNCHANGED <<ret, mtxW>>
    /\ UNCHANGED <<made, ctor, mtxR, op, batch, i, ctxDone, tels, first,
                   seen>>

\* exp.mtx.Lock(), second half: wait for the active readers to leave.
\* Then, under the lock, exp.closed = true and the select is entered, which
\* evaluates exp.client.Channel().Close(time.Minute).
ShutdownLocked(c) ==
    /\ pc[c] = "drain"
    /\ mtxR = {}
    /\ closed' = TRUE
    /\ closeCh' = [closeCh EXCEPT ![c] = "open"]
    /\ closeLog' = Append(closeLog, c)
    /\ pc' = [pc EXCEPT ![c] = "select"]
    /\ UNCHANGED <<made, ctor, mtxW, mtxR, op, batch, i, ret, ctxDone,
                   tels, first, seen>>

\* The cases of the select that can proceed.
Ready(c) ==
    {k \in {"close", "ctx"} :
        \/ k = "close" /\ closeCh[c] = "ready"
        \/ k = "ctx" /\ ctxDone[c]}

\* The value returned for a select case.
CaseResult(k) == IF k = "close" THEN "nil" ELSE "context canceled"

\* Faulty variant of ShutdownReturn: a canceled Shutdown reopens the
\* exporter.
ShutdownReturnReopen(c, k) ==
    /\ ret' = [ret EXCEPT ![c] = CaseResult(k)]
    /\ pc' = [pc EXCEPT ![c] = "done"]
    /\ mtxW' = 0
    /\ closed' = (k = "close")

\* return from Shutdown through case k, with the deferred Unlock; the
\* closed flag stays as line 86 set it.
ShutdownReturn(c, k) ==
    /\ ret' = [ret EXCEPT ![c] = CaseResult(k)]
    /\ pc' = [pc EXCEPT ![c] = "done"]
    /\ mtxW' = 0
    /\ UNCHANGED closed

\* The signal that fired first, for the record.
FirstFired(c, k) ==
    first' = [first EXCEPT ![c] = IF first[c] = "none" THEN k ELSE first[c]]

\* The select polls its cases: one of those that can proceed is chosen
\* (any of them, when several can); with none, the call blocks.
ShutdownSelect(c) ==
    /\ pc[c] = "select"
    /\ IF Ready(c) # {}
       THEN \E k \in Ready(c) : ShutdownReturn(c, k)
       ELSE /\ pc' = [pc EXCEPT ![c] = "blocked"]
            /\ UNCHANGED <<ret, mtxW, closed>>
    /\ UNCHANGED <<made, ctor, mtxR, op, batch, i, ctxDone, closeCh, tels,
                   closeLog, first, seen>>

\* The client: the channel returned by Close delivers its signal before the
\* select has polled.
CloseDone(c) ==
    /\ pc[c] = "select"
    /\ closeCh[c] = "open"
    /\ closeCh' = [closeCh EXCEPT ![c] = "ready"]
    /\ FirstFired(c, "close")
    /\ UNCHANGED <<made, ctor, closed, mtxW, mtxR, op, pc, batch, i, ret,
                   ctxDone, tels, closeLog, seen>>

\* The caller: ctx is canceled (or its deadline passes) before the select
\* has polled.  ctx.Done() is read by the select alone, so a cancellation
\* at any earlier point of the call is the call invoked with a canceled ctx.
CtxCancel(c) ==
    /\ pc[c] = "select"
    /\ ~ctxDone[c]
    /\ ctxDone' = [ctxDone EXCEPT ![c] = TRUE]
    /\ FirstFired(c, "ctx")
    /\ UNCHANGED <<made, ctor, closed, mtxW, mtxR, op, pc, batch, i, ret,
                   closeCh, tels, closeLog, seen>>

\* The close signal arrives at the blocked select, which takes
\* case <-exp.client.Channel().Close(time.Minute): return nil.
ShutdownWakeClose(c) ==
    /\ pc[c] = "blocked"
    /\ closeCh[c] = "open"
    /\ closeCh' = [closeCh EXCEPT ![c] = "ready"]
    /\ FirstFired(c, "close")
    /\ ShutdownReturn(c, "close")
    /\ UNCHANGED <<made, ctor, mtxR, op, batch, i, ctxDone, tels, closeLog,
                   seen>>

\* The cancellation arrives at the blocked select, which takes
\* case <-ctx.Done(): return errors.New("context canceled").
ShutdownWakeCtx(c) ==
    /\ pc[c] = "blocked"
    /\ ~ctxDone[c]
    /\ ctxDone' = [ctxDone EXCEPT ![c] = TRUE]
    /\ FirstFired(c, "ctx")
    /\ ShutdownReturn(c, "ctx")
    /\ UNCHANGED <<made, ctor, mtxR, op, batch, i, closeCh, tels, closeLog,
                   seen>>

(***************************************************************************)
(* The specification of the exporter under concurrent calls.               *)
(***************************************************************************)
Next ==
    \E c \in Calls :
           \/ \E spans \in BatchSet : ExportInvoke(c, spans)
           \/ ExportRLock(c)
           \/ ExportProcess(c)
           \/ ExportReturn(c)
           \/ \E canceled \in BOOLEAN : ShutdownInvoke(c, canceled)
           \/ ShutdownLock(c)
           \/ ShutdownLocked(c)
           \/ ShutdownSelect(c)
           \/ CloseDone(c)
           \/ CtxCancel(c)
           \/ ShutdownWakeClose(c)
           \/ ShutdownWakeCtx(c)

Spec == Init /\ [][Next]_vars

(***************************************************************************)
(* The specification of the exporter from before its construction.        *)
(***************************************************************************)
NextNew ==
    \/ \E key \in {"", "ikey"}, logger \in {"nil", "func"} :
           NewExporter(key, logger)
    \/ \E cfg \in {"nil", "cfg"}, logger \in {"nil", "func"} :
           NewExporterFromConfig(cfg, logger)
    \/ \E c \in Calls :
           \/ \E spans \in BatchSet : ExportInvoke(c, spans)
           \/ ExportRLock(c)
           \/ ExportProcess(c)
           \/ ExportReturn(c)
           \/ \E canceled \in BOOLEAN : ShutdownInvoke(c, canceled)
           \/ ShutdownLock(c)
           \/ ShutdownLocked(c)
           \/ ShutdownSelect(c)
           \/ CloseDone(c)
           \/ CtxCancel(c)
           \/ ShutdownWakeClose(c)
           \/ ShutdownWakeCtx(c)

SpecNew == InitNew /\ [][NextNew]_vars

(***************************************************************************)
(* The specification of process called directly on one span, as the       *)
(* process tests do on a fresh exporter.                                   *)
(***************************************************************************)
ProcessCall(c) ==
    /\ op[c] = "process"
    /\ pc[c] = "call"
    /\ tels' = tels \o Tagged(c, 1, process(batch[c][1]))
    /\ pc' = [pc EXCEPT ![c] = "done"]
    /\ ret' = [ret EXCEPT ![c] = "void"]
    /\ UNCHANGED <<made, ctor, closed, mtxW, mtxR, op, batch, i, ctxDone,
                   closeCh, closeLog, first, seen>>

InitProcess ==
    /\ made = TRUE
    /\ ctor = [fn |-> "NewExporter", cfgNil |-> FALSE,
               exp |-> "exporter", err |-> "nil"]
    /\ closed = FALSE
    /\ mtxW = 0
    /\ mtxR = {}
    /\ \E sp \in ProcSpans :
           /\ op = [c \in Calls |-> IF c = 1 THEN "process" ELSE "none"]
           /\ pc = [c \in Calls |-> IF c = 1 THEN "call" ELSE "idle"]
           /\ batch = [c \in Calls |-> IF c = 1 THEN <<sp>> ELSE << >>]
    /\ i = [c \in Calls |-> 0]
    /\ ret = [c \in Calls |-> "none"]
    /\ ctxDone = [c \in Calls |-> FALSE]
    /\ closeCh = [c \in Calls |-> "none"]
    /\ first = [c \in Calls |-> "none"]
    /\ seen = [c \in Calls |-> NoSeen]
    /\ tels = << >>
    /\ closeLog = << >>

NextProcess == \E c \in Calls : ProcessCall(c)

SpecProcess == InitProcess /\ [][NextProcess]_vars

(***************************************************************************)
(* Properties.                                                             *)
(***************************************************************************)
ExportCalls == {c \in Calls : op[c] = "export"}

\* The telemetry call c passed to client.Track, in order.
TrackedBy(c) == SelectSeq(tels, LAMBDA t : t.by = c)

\* The spans of a batch that are of one of the six enumerated kinds.
Recognised(spans) ==
    SelectSeq(spans, LAMBDA sp : sp.kind \in RecognisedKinds)

\* The number of times call c invoked the client's Close.
CloseCount(c) == Len(SelectSeq(closeLog, LAMBDA d : d = c))

\* C1: an ExportSpans call invoked after some Shutdown call returned nil
\* never calls client.Track and, once returned, has returned
\* "exporter closed".
C1_ExportAfterShutdownRejected ==
    \A c \in ExportCalls :
        seen[c].shutOk =>
            /\ \A k \in 1 .. Len(tels) : tels[k].by # c
            /\ pc[c] = "done" => ret[c] = "exporter closed"

\* A non-empty batch was rejected after a Shutdown that returned nil.
C1_Witness ==
    \E c \in ExportCalls :
        /\ seen[c].shutOk
        /\ pc[c] = "done"
        /\ batch[c] # << >>
        /\ ret[c] = "exporter closed"

\* C2, as stated: an ExportSpans call invoked after some Shutdown call was
\* invoked (whether or not that call has acquired the lock) never calls
\* client.Track and returns "exporter closed".
C2_ExportAfterShutdownInvoked ==
    \A c \in ExportCalls :
        seen[c].begun =>
            /\ \A k \in 1 .. Len(tels) : tels[k].by # c
            /\ pc[c] = "done" => ret[c] = "exporter closed"

\* C2, amended: an ExportSpans call invoked after some Shutdown call has
\* acquired the exclusive lock never calls client.Track and returns
\* "exporter closed".
C2_ExportAfterShutdownLocked ==
    \A c \in ExportCalls :
        seen[c].locked =>
            /\ \A k \in 1 .. Len(tels) : tels[k].by # c
            /\ pc[c] = "done" => ret[c] = "exporter closed"

\* A non-empty batch, handed over while a Shutdown was still waiting under
\* the lock, was rejected.
C2_Witness ==
    \E c \in ExportCalls :
        /\ seen[c].locked
        /\ ~seen[c].shutOk
        /\ Cardinality(ShutdownCalls) = 1
        /\ \A d \in ShutdownCalls : ret[d] = "nil"
        /\ pc[c] = "done"
        /\ batch[c] # << >>
        /\ ret[c] = "exporter closed"

\* The closed flag does not change while an ExportSpans call is in its
\* batch loop: it is false from the check to the end of the loop.
ClosedStableInLoop == \A c \in ExportCalls : pc[c] = "loop" => ~closed

\* C3, as stated: a returned ExportSpans call either returned nil after a
\* client.Track call for every span of its batch, or "exporter closed"
\* after none; the closed flag does not change during the batch loop.
C3_AllOrNothing ==
    /\ ClosedStableInLoop
    /\ \A c \in ExportCalls :
           pc[c] = "done" =>
               \/ ret[c] = "nil" /\ Len(TrackedBy(c)) = Len(batch[c])
               \/ ret[c] = "exporter closed" /\ TrackedBy(c) = << >>

\* C3, amended: a returned ExportSpans call either returned nil after a
\* client.Track call for every span of its batch that is of one of the six
\* enumerated kinds, or "exporter closed" after none; the closed flag does
\* not change during the batch loop.
C3_AllRecognisedOrNothing ==
    /\ ClosedStableInLoop
    /\ \A c \in ExportCalls :
           pc[c] = "done" =>
               \/ /\ ret[c] = "nil"
                  /\ Len(TrackedBy(c)) = Len(Recognised(batch[c]))
               \/ ret[c] = "exporter closed" /\ TrackedBy(c) = << >>

\* An ExportSpans call invoked after a Shutdown call, and running beside
\* it, got its whole batch through before that Shutdown took the lock.
C3_Witness ==
    \E c \in ExportCalls :
        /\ seen[c].begun
        /\ pc[c] = "done" /\ ret[c] = "nil"
        /\ batch[c] # << >>
        /\ Len(TrackedBy(c)) = Len(batch[c])
        /\ \E d \in ShutdownCalls : d < c /\ pc[d] = "done"

\* C4: an ExportSpans call that found the exporter open returns nil, and
\* when it has returned nil on a batch of n spans of enumerated kinds it has
\* made exactly n client.Track calls, the k-th for span k of the batch, with
\* the telemetry of that span's kind; "exporter closed" is returned by a
\* closed exporter only.
C4_EverySpanTrackedInOrder ==
    \A c \in ExportCalls :
        LET t == TrackedBy(c)
        IN /\ ret[c] = "exporter closed" => closed
           /\ pc[c] = "loop" => Len(t) <= i[c]
           /\ (pc[c] = "done" /\ ret[c] = "nil"
                 /\ Recognised(batch[c]) = batch[c]) =>
                  /\ Len(t) = Len(batch[c])
                  /\ \A k \in 1 .. Len(batch[c]) :
                         /\ t[k].ix = k
                         /\ t[k].tel.Fn = Dispatch(batch[c][k].kind)
                         /\ t[k].tel.Name = batch[c][k].name
                         /\ t[k].tel.Timestamp = batch[c][k].startTime

\* An ExportSpans call returned nil on a batch of two spans before any
\* Shutdown was invoked, with both submitted.
C4_Witness ==
    \E c \in ExportCalls :
        /\ ShutdownCalls = {}
        /\ pc[c] = "done" /\ ret[c] = "nil"
        /\ Len(batch[c]) = 2
        /\ Len(TrackedBy(c)) = 2

\* C5: a returned Shutdown call returned nil if its close-completion signal
\* fired before its cancellation signal, and "context canceled" if the
\* cancellation fired first (a ctx canceled at the call included).
C5_FirstSignalDecides ==
    \A c \in ShutdownCalls :
        pc[c] = "done" =>
            /\ first[c] = "close" => ret[c] = "nil"
            /\ first[c] = "ctx" => ret[c] = "context canceled"

\* closed is true exactly when some Shutdown call has set it under the
\* lock, whatever that call returned since.
ClosedIffShutdownLocked ==
    closed <=> \E d \in ShutdownCalls : pc[d] \in {"select", "blocked", "done"}

\* C6: closed is false until a Shutdown call holds the lock, true from then
\* on (also when that call returns "context canceled"), and never set back
\* to false.
C6_ClosedMonotone ==
    /\ [](ClosedIffShutdownLocked)
    /\ [][closed => closed']_vars

\* A Shutdown returned "context canceled", the exporter is closed and a
\* later call found it so.
C6_Witness ==
    \E d \in ShutdownCalls :
        /\ ret[d] = "context canceled"
        /\ closed
        /\ \E e \in ExportCalls : e > d /\ ret[e] = "exporter closed"

\* C7: a Shutdown call invoked on a closed exporter, once at its select or
\* past it, has invoked the client's Close exactly once and left closed
\* true; it returns nil only with its close signal fired and "context
\* canceled" only with its ctx canceled, as a first call does.
C7_ShutdownRepeatable ==
    \A c \in ShutdownCalls :
        /\ pc[c] \in {"Lock", "drain"} => CloseCount(c) = 0
        /\ pc[c] \in {"select", "blocked", "done"} =>
               /\ closed
               /\ CloseCount(c) = 1
        /\ pc[c] = "done" =>
               /\ ret[c] \in {"nil", "context canceled"}
               /\ ret[c] = "nil" => closeCh[c] = "ready"
               /\ ret[c] = "context canceled" => ctxDone[c]

\* A second Shutdown, invoked after the first had returned "context
\* canceled", ran its own wait and returned nil.
C7_Witness ==
    \E c, d \in ShutdownCalls :
        /\ c < d
        /\ ret[c] = "context canceled"
        /\ seen[d].locked
        /\ ret[d] = "nil"
        /\ CloseCount(d) = 1

\* C8: NewExporterFromConfig with a nil configuration returns "configuration
\* is nil" and no exporter; every other constructor call returns no error
\* and an exporter that is open with an unheld lock.
C8_Constructors ==
    /\ (ctor.fn = "NewExporterFromConfig" /\ ctor.cfgNil) =>
           /\ ctor.err = "configuration is nil"
           /\ ctor.exp = "nil"
           /\ ~made
    /\ (ctor.fn # "none" /\ ~(ctor.fn = "NewExporterFromConfig" /\ ctor.cfgNil)) =>
           /\ ctor.err = "nil"
           /\ ctor.exp = "exporter"
           /\ made
           /\ (\A c \in Calls : pc[c] = "idle") =>
                  ~closed /\ mtxW = 0 /\ mtxR = {}

\* NewExporterFromConfig(nil) has returned its error and no exporter.
C8_Witness ==
    /\ ctor.fn = "NewExporterFromConfig"
    /\ ctor.cfgNil
    /\ ctor.err = "configuration is nil"
    /\ ~made

ProcessCalls == {c \in Calls : op[c] = "process" /\ pc[c] = "done"}

\* The mapping function and the telemetry type each enumerated kind is to
\* produce.
KindFn(kind) ==
    IF kind \in {SpanKindUnspecified, SpanKindInternal} THEN "processInternal"
    ELSE IF kind = SpanKindServer THEN "processRequest"
    ELSE IF kind \in {SpanKindClient, SpanKindProducer} THEN "processDependency"
    ELSE "processEvent"
KindType(kind) ==
    IF kind \in {SpanKindUnspecified, SpanKindInternal} THEN "EventTelemetry"
    ELSE IF kind \in {SpanKindClient, SpanKindProducer}
    THEN "RemoteDependencyTelemetry"
    ELSE "RequestTelemetry"

\* C9: for a span of an enumerated kind, whatever its status and attributes,
\* process emits the variant of its kind: unspecified and internal an
\* EventTelemetry by processInternal, server a RequestTelemetry by
\* processRequest, client and producer a RemoteDependencyTelemetry by
\* processDependency, consumer a RequestTelemetry by processEvent.
C9_DispatchOnKind ==
    \A c \in ProcessCalls :
        LET sp == batch[c][1]
        IN sp.kind \in RecognisedKinds =>
               /\ TrackedBy(c) # << >>
               /\ \A k \in 1 .. Len(TrackedBy(c)) :
                      /\ TrackedBy(c)[k].tel.Fn = KindFn(sp.kind)
                      /\ TrackedBy(c)[k].tel.Type = KindType(sp.kind)

\* A producer span with status Error and a "key" attribute came out as a
\* dependency.
C9_Witness ==
    \E c \in ProcessCalls :
        LET sp == batch[c][1]
        IN /\ sp.kind = SpanKindProducer
           /\ sp.status = CodesError
           /\ \E a \in 1 .. Len(sp.attr) : sp.attr[a].Key = "key"
           /\ Len(tels) = 1
           /\ tels[1].tel.Type = "RemoteDependencyTelemetry"

\* C10, as stated: one call of process makes exactly one client.Track call,
\* for every span.
C10_ExactlyOneTrack ==
    \A c \in ProcessCalls : Len(TrackedBy(c)) = 1

\* C10, amended: one call of process makes exactly one client.Track call
\* for every span of one of the six enumerated kinds, and never more than
\* one for any span.
C10_ExactlyOneTrackForKnownKind ==
    \A c \in ProcessCalls :
        /\ Len(TrackedBy(c)) <= 1
        /\ batch[c][1].kind \in RecognisedKinds => Len(TrackedBy(c)) = 1

\* A server span with status Unset was processed into one record.
C10_Witness ==
    \E c \in ProcessCalls :
        /\ batch[c][1].kind = SpanKindServer
        /\ batch[c][1].status = CodesUnset
        /\ Len(tels) = 1

\* The batch indices of the spans call c passed on to client.Track.
TrackedIx(c) == {tels[k].ix : k \in {j \in 1 .. Len(tels) : tels[j].by = c}}

\* C11: a span whose kind is none of the six enumerated values is skipped
\* without an error: no client.Track call is made for it, the ExportSpans
\* call goes on with the rest of the batch, and a call that found the
\* exporter open returns nil with exactly the spans of enumerated kinds
\* tracked.
C11_UnknownKindSkipped ==
    \A c \in ExportCalls :
        /\ \A x \in TrackedIx(c) : batch[c][x].kind \in RecognisedKinds
        /\ pc[c] = "loop" =>
               TrackedIx(c) = {x \in 1 .. i[c] :
                                  batch[c][x].kind \in RecognisedKinds}
        /\ pc[c] = "done" =>
               \/ /\ ret[c] = "nil"
                  /\ TrackedIx(c) = {x \in 1 .. Len(batch[c]) :
                                        batch[c][x].kind \in RecognisedKinds}
               \/ ret[c] = "exporter closed" /\ TrackedIx(c) = {}

\* A batch that starts with a span of no enumerated kind was exported: nil
\* was returned and the span behind it was tracked.
C11_Witness ==
    \E c \in ExportCalls :
        /\ pc[c] = "done" /\ ret[c] = "nil"
        /\ Len(batch[c]) = 2
        /\ batch[c][1].kind = SpanKindOther
        /\ TrackedIx(c) = {2}
        /\ Len(TrackedBy(c)) = 1

\* The telemetry of the one record a direct process call emitted.
RecordOf(c) == TrackedBy(c)[1].tel

\* The process calls that have returned with a record emitted.
EmittingCalls == {c \in ProcessCalls : TrackedBy(c) # << >>}

\* What String() prints for the identifiers of the fixtures.
TraceIdHex == "00112233445566778899aabbccddeeff"
ParentIdHex == "0123456789abcdef"

\* C12: in every emitted record of every variant the operation id is the
\* span's trace id (32 lowercase hex characters); the operation parent id is
\* the parent-span id (16 lowercase hex characters) when that is not all
\* zero, and the trace id when it is.
C12_OperationParentId ==
    \A c \in EmittingCalls :
        LET sp == batch[c][1]
            t == RecordOf(c)
        IN /\ sp.traceId = TraceIdFixture =>
                  t.OperationId = TraceIdHex /\ Len(t.OperationId) = 32
           /\ (sp.parentId = ParentIdFixture) =>
                  /\ t.OperationParentId = ParentIdHex
                  /\ Len(t.OperationParentId) = 16
           /\ (sp.parentId = ParentIdZero /\ sp.traceId = TraceIdFixture) =>
                  /\ t.OperationParentId = TraceIdHex
                  /\ Len(t.OperationParentId) = 32

\* A dependency record of a client span without parent carries the trace id
\* as its operation parent id.
C12_Witness ==
    \E c \in EmittingCalls :
        /\ batch[c][1].kind = SpanKindClient
        /\ batch[c][1].parentId = ParentIdZero
        /\ RecordOf(c).Type = "RemoteDependencyTelemetry"
        /\ RecordOf(c).OperationParentId = TraceIdHex

\* C13: the success flag of every Request, TrackedEvent and Dependency
\* record is true exactly when the span's status code is not Error: Ok and
\* Unset give true, Error gives false.
C13_SuccessUnlessError ==
    \A c \in EmittingCalls :
        RecordOf(c).Type \in {"RequestTelemetry", "RemoteDependencyTelemetry"}
            => (RecordOf(c).Success <=> batch[c][1].status # CodesError)

\* The attributes of a span in the order process writes them into props:
\* the resource attributes, then the span attributes.
AllAttrs(sp) == sp.res \o sp.attr

\* The merged property map has the key.
HasKey(sp, key) == \E a \in 1 .. Len(AllAttrs(sp)) : AllAttrs(sp)[a].Key = key

\* The merged value of a key the map has: the string of the last attribute
\* written under it.
MergedValue(sp, key) ==
    LET all == AllAttrs(sp)
        at == {a \in 1 .. Len(all) : all[a].Key = key}
        last == CHOOSE a \in at : \A b \in at : b <= a
    IN IF all[last].Value.Type = "STRING" THEN all[last].Value.Str ELSE ""

\* The merged value of a key, or a default when the map does not have it.
MergedOr(sp, key, default) ==
    IF HasKey(sp, key) THEN MergedValue(sp, key) ELSE default

\* C14: for InternalEvent, Request and TrackedEvent records (unspecified,
\* internal, server and consumer spans) the cloud role is "unknown-service"
\* when the merged map has no service.name, and otherwise the merged value
\* of service.name, which is then absent from the record's properties.
C14_CloudRole ==
    \A c \in EmittingCalls :
        LET sp == batch[c][1]
            t == RecordOf(c)
        IN sp.kind \in {SpanKindUnspecified, SpanKindInternal,
                        SpanKindServer, SpanKindConsumer} =>
               /\ ~HasKey(sp, ServiceNameKey) => t.Role = "unknown-service"
               /\ HasKey(sp, ServiceNameKey) =>
                      /\ t.Role = MergedValue(sp, ServiceNameKey)
                      /\ ServiceNameKey \notin DOMAIN t.Properties

\* An internal span with service.name among its resource attributes and
\* another attribute besides came out with that role, and with the other
\* attribute alone in its properties.
C14_Witness ==
    \E c \in EmittingCalls :
        /\ batch[c][1].kind = SpanKindInternal
        /\ batch[c][1].res = <<KV(ServiceNameKey, "STRING", "test")>>
        /\ batch[c][1].attr = <<KV("valid", "STRING", "true")>>
        /\ RecordOf(c).Role = "test"
        /\ DOMAIN RecordOf(c).Properties = {"valid"}

\* What String() prints for the span id of the fixtures.
SpanIdHex == "0000000000000001"

C16_ResponseCodeDefaultEmpty ==
    \A c \in EmittingCalls :
        LET sp == batch[c][1]
        IN (sp.kind \in {SpanKindServer, SpanKindConsumer}
              /\ ~HasKey(sp, "responseCode"))
               => RecordOf(c).ResponseCode = ""

C18_DependencyFields ==
    \A c \in EmittingCalls :
        LET sp == batch[c][1]
            t == RecordOf(c)
        IN sp.kind \in {SpanKindClient, SpanKindProducer} =>
               /\ t.Type = "RemoteDependencyTelemetry"
               /\ t.Role = MergedOr(sp, "source", "unknown-service")
               /\ t.Target = MergedOr(sp, ServiceNameKey, "unknown-target")
               /\ t.DependencyType = MergedOr(sp, "type", "")
               /\ DOMAIN t.Properties \cap {"source", "type", ServiceNameKey}
                      = {}

\* A producer span with service.name "test" and no "source" came out with
\* role "unknown-service" and target "test".
C18_Witness ==
    \E c \in EmittingCalls :
        /\ batch[c][1].kind = SpanKindProducer
        /\ batch[c][1].res = <<KV(ServiceNameKey, "STRING", "test")>>
        /\ batch[c][1].attr = <<KV("type", "STRING", "http")>>
        /\ RecordOf(c).Role = "unknown-service"
        /\ RecordOf(c).Target = "test"
        /\ RecordOf(c).DependencyType = "http"
        /\ RecordOf(c).Properties = EmptyMap

\* The Shutdown calls in their close/cancel wait: the lock acquired, not yet
\* returned.
Waiting == {d \in ShutdownCalls : pc[d] \in {"select", "blocked"}}

\* While a Shutdown call waits it holds the lock alone: no ExportSpans call
\* is between its RLock and its RUnlock, and no other Shutdown call waits.
WriterAlone ==
    \A d \in Waiting :
        /\ mtxW = d
        /\ mtxR = {}
        /\ \A c \in ExportCalls : pc[c] # "loop"
        /\ Waiting = {d}

\* While a Shutdown call waits, a step makes no client.Track call and lets
\* no ExportSpans call past its RLock.
NoTrackWhileWaiting ==
    Waiting # {} =>
        /\ tels' = tels
        /\ \A c \in ExportCalls : pc[c] = "RLock" => pc'[c] = "RLock"

\* C19: from the moment a Shutdown call acquires the lock until it returns,
\* no ExportSpans call is between its lock acquisition and its release and
\* no other Shutdown call holds the lock; so no client.Track call happens
\* during a shutdown wait and at most one shutdown wait is in progress.
C19_WriterExclusive ==
    /\ [](WriterAlone)
    /\ [][NoTrackWhileWaiting]_vars

\* A Shutdown call is blocked in its select while an ExportSpans call with a
\* non-empty batch, invoked beforehand, stands at its RLock.
C19_Witness ==
    \E d \in ShutdownCalls, c \in ExportCalls :
        /\ pc[d] = "blocked"
        /\ c < d
        /\ pc[c] = "RLock"
        /\ batch[c] # << >>

\* The client's Close has been invoked at least once.
CloseInvoked == closeLog # << >>

\* Once Close has been invoked no ExportSpans call is in its batch loop.
NoLoopAfterClose ==
    CloseInvoked => \A c \in ExportCalls : pc[c] # "loop" /\ c \notin mtxR

\* C20: in every interleaving of ExportSpans and Shutdown calls, no
\* client.Track call occurs after the client's Close has been invoked for
\* the first time: at that moment no ExportSpans call is processing spans,
\* and none processes a span afterwards.
C20_NoTrackAfterClose ==
    /\ [](NoLoopAfterClose)
    /\ [][CloseInvoked => (tels' = tels /\ CloseInvoked')]_vars

\* Close was invoked after an ExportSpans call had tracked its batch, and
\* the Shutdown that invoked it has returned "context canceled"; nothing
\* was tracked since.
C20_Witness ==
    \E d \in ShutdownCalls, c \in ExportCalls :
        /\ c < d
        /\ ret[c] = "nil"
        /\ Len(TrackedBy(c)) = 2
        /\ Len(tels) = 2
        /\ closeLog = <<d>>
        /\ ret[d] = "context canceled"

\* The keys of the merged property map of a span.
MergedKeys(sp) == {AllAttrs(sp)[a].Key : a \in 1 .. Len(AllAttrs(sp))}

\* The keys each variant reads its fields from.
Consumed(kind) ==
    IF kind \in {SpanKindUnspecified, SpanKindInternal} THEN {ServiceNameKey}
    ELSE IF kind = SpanKindServer
    THEN {ServiceNameKey, "url", "responseCode"}
    ELSE IF kind = SpanKindConsumer
    THEN {ServiceNameKey, "key", "responseCode"}
    ELSE {"source", "type", ServiceNameKey}

\* C21: for every variant the properties of the emitted record are the
\* merged property map minus exactly the keys the variant consumes
\* (InternalEvent: service.name; Request: service.name, url, responseCode;
\* TrackedEvent: service.name, key, responseCode; Dependency: source, type,
\* service.name): no consumed key is left, and every other key is kept with
\* its merged value.
C21_PropertiesFrame ==
    \A c \in EmittingCalls :
        LET sp == batch[c][1]
            t == RecordOf(c)
        IN /\ DOMAIN t.Properties = MergedKeys(sp) \ Consumed(sp.kind)
           /\ \A k \in DOMAIN t.Properties :
                  t.Properties[k] = MergedValue(sp, k)

\* A client span with "url" and "valid" among its resource attributes and
\* "source" and "type" among its span attributes came out with the first
\* two, and only them, in its properties.
C21_Witness ==
    \E c \in EmittingCalls :
        /\ batch[c][1].kind = SpanKindClient
        /\ batch[c][1].attr = <<KV("source", "STRING", "caller"),
                                KV("type", "STRING", "http")>>
        /\ DOMAIN RecordOf(c).Properties = {"url", "valid"}
        /\ RecordOf(c).Properties["url"] = "res-url"
        /\ RecordOf(c).Properties["valid"] = "res"

\* The keys of an attribute list, and the string of the last attribute the
\* list has under a key.
KeysOf(attrs) == {attrs[a].Key : a \in 1 .. Len(attrs)}
LastOf(attrs, key) ==
    LET at == {a \in 1 .. Len(attrs) : attrs[a].Key = key}
        last == CHOOSE a \in at : \A b \in at : b <= a
    IN IF attrs[last].Value.Type = "STRING" THEN attrs[last].Value.Str ELSE ""

\* The value the union of resource and span attributes has under a key of
\* either: the span attribute's when the span has the key, the resource
\* attribute's otherwise.
UnionValue(sp, key) ==
    IF key \in KeysOf(sp.attr) THEN LastOf(sp.attr, key)
    ELSE LastOf(sp.res, key)

\* The field of a record a key is read into ("none": no field of this
\* record).
FieldOf(t, key) ==
    CASE t.Fn = "processDependency" /\ key = "source" -> t.Role
      [] t.Fn = "processDependency" /\ key = "type" -> t.DependencyType
      [] t.Fn = "processDependency" /\ key = ServiceNameKey -> t.Target
      [] t.Fn # "processDependency" /\ key = ServiceNameKey -> t.Role
      [] t.Fn = "processRequest" /\ key = "url" -> t.Url
      [] t.Fn = "processEvent" /\ key = "key" -> t.Url
      [] t.Fn \in {"processRequest", "processEvent"}
            /\ key = "responseCode" -> t.ResponseCode
      [] OTHER -> "none"

\* C22: the merged property map is the union of the resource attributes and
\* the span attributes: every key of either is read into its field or kept
\* in the properties, with the span attribute's value when the key is in
\* both and the resource attribute's value when it is in the resource
\* attributes alone.
C22_SpanOverridesResource ==
    \A c \in EmittingCalls :
        LET sp == batch[c][1]
            t == RecordOf(c)
        IN \A k \in KeysOf(sp.res) \cup KeysOf(sp.attr) :
               IF k \in Consumed(sp.kind)
               THEN FieldOf(t, k) = UnionValue(sp, k)
               ELSE /\ k \in DOMAIN t.Properties
                    /\ t.Properties[k] = UnionValue(sp, k)

\* A server span with "url" among its resource attributes alone, and
\* "valid" among both, came out with the resource's url and the span's
\* value of "valid".
C22_Witness ==
    \E c \in EmittingCalls :
        /\ batch[c][1].kind = SpanKindServer
        /\ batch[c][1].res = <<KV("url", "STRING", "res-url"),
                               KV("valid", "STRING", "res")>>
        /\ batch[c][1].attr = <<KV("valid", "STRING", "true")>>
        /\ RecordOf(c).Url = "res-url"
        /\ RecordOf(c).Properties["valid"] = "true"

(***************************************************************************)
(* The specification of the exporter under fair scheduling.  A call that   *)
(* has been invoked is a running goroutine: each of its steps is taken     *)
(* once it stays possible.  Callers need not invoke anything.  A blocked   *)
(* select is resumed: the channel returned by Close(time.Minute) delivers  *)
(* within the grace period unless the cancellation comes first.            *)
(***************************************************************************)
Fairness ==
    \A c \in Calls :
        /\ WF_vars(ExportRLock(c))
        /\ WF_vars(ExportProcess(c))
        /\ WF_vars(ExportReturn(c))
        /\ WF_vars(ShutdownLock(c))
        /\ WF_vars(ShutdownLocked(c))
        /\ WF_vars(ShutdownSelect(c))
        /\ WF_vars(ShutdownWakeClose(c) \/ ShutdownWakeCtx(c))

SpecFair == Init /\ [][Next]_vars /\ Fairness

\* An ExportSpans call waits on nothing but the lock: at its RLock it can
\* step as soon as no writer holds or awaits the lock, and in its loop it
\* can always step.
ExportWaitsOnLockOnly ==
    \A c \in ExportCalls :
        /\ (pc[c] = "RLock" /\ mtxW = 0) => ENABLED ExportRLock(c)
        /\ pc[c] = "loop" => ENABLED (ExportProcess(c) \/ ExportReturn(c))

\* A Shutdown call that has returned did so through the lock: it invoked
\* Close, which it does under the lock alone, and it has released the lock.
ReturnedThroughLock ==
    \A d \in ShutdownCalls :
        pc[d] = "done" => CloseCount(d) = 1 /\ mtxW # d

\* No call is under way: each has returned or was never invoked.
AllReturned == \A c \in Calls : pc[c] \in {"idle", "done"}

\* C23: under fair scheduling, with every shutdown wait ended by its close
\* signal or its cancellation, every Shutdown call that was invoked acquires
\* the lock and returns, and every ExportSpans call that was invoked
\* returns, one invoked during a shutdown wait included; an ExportSpans
\* call waits on nothing but the lock.  (A call is invoked once, so every
\* invoked call returns exactly when from some point on no call is under
\* way.)
C23_EveryCallReturns ==
    /\ [](ExportWaitsOnLockOnly /\ ReturnedThroughLock)
    /\ <>[]AllReturned

\* Both calls have returned: a Shutdown whose wait was ended by the
\* cancellation while it was blocked, and an ExportSpans call that was
\* invoked during that wait.
C23_Witness ==
    \E d \in ShutdownCalls, c \in ExportCalls :
        /\ d < c
        /\ seen[c].locked /\ ~seen[c].shutOk
        /\ first[d] = "ctx"
        /\ ret[d] = "context canceled"
        /\ pc[c] = "done"
        /\ \A e \in Calls : pc[e] \in {"idle", "done"}

====
